---- MODULE Spec2Model ----
(***************************************************************************)
(* The automatic graph layout of the flowchart editor (layoutService.ts:   *)
(* autoLayout and the five stages it calls), as a state machine: the state *)
(* is the call's input and the local variables of autoLayout, and each     *)
(* action is one statement of autoLayout (one stage call, or one return).  *)
(* After a call has returned, the caller may call autoLayout a second time *)
(* on an input related to the first one (its own output, the same input    *)
(* with other handles, the same input in the other orientation).           *)
(*                                                                         *)
(* Strings the code builds or parses (the back-edge key `${u}->${v}`, the  *)
(* dummy id `dummy-${u}-${v}-${i}`) are sequences of tokens; an id of the  *)
(* input is a one-token sequence such as <<"n1">>.                         *)
(* Positions are stored in HALF PIXELS (twice the number the code holds),  *)
(* so that the centring offset (max - extent) / 2 stays an integer.        *)
(***************************************************************************)
EXTENDS Integers, Sequences, FiniteSets, TLC

VARIABLES
    pc,              \* the statement of autoLayout that runs next
    nodes,           \* parameter nodes: Node[]
    edges,           \* parameter edges: Edge[]
    orientation,     \* parameter orientation
    adj,             \* const adj: Map<string, string[]>
    revAdj,          \* const revAdj
    inDegree,        \* const inDegree: Map<string, number>
    backEdges,       \* const backEdges: Set<string>, in insertion order
    layers,          \* const layers: string[][] (reordered in place later)
    dummyNodes,      \* [id, Node] pairs of createVirtualGraph
    virtualEdges,    \* virtual edges of createVirtualGraph
    positionedNodes, \* what assignCoordinates returned (dummies included)
    newNodes,        \* returned newNodes
    newEdges,        \* returned newEdges
    call,            \* 1 in the first call of autoLayout, 2 in the second
    relation,        \* how the input of the second call was made of the first
    first,           \* input and results of the first call, once it returned
    reduction        \* the layers reduceCrossings was given and those each of
                     \* its passes left, once it returned

vars == <<pc, nodes, edges, orientation, adj, revAdj, inDegree, backEdges,
          layers, dummyNodes, virtualEdges, positionedNodes, newNodes, newEdges,
          call, relation, first, reduction>>

\* The variables of the caller, which no statement of autoLayout touches.
caller == <<call, relation, first>>

----------------------------------------------------------------------------
(* Program constants *)

Y_GAP == 120
X_GAP == 200

ShapeTypes == {"Process", "Decision", "Start", "End", "Email"}

SHAPE_DIMENSIONS(type) ==
    CASE type = "Process"  -> [width |-> 140, height |-> 80]
      [] type = "Decision" -> [width |-> 140, height |-> 100]
      [] type = "Start"    -> [width |-> 140, height |-> 60]
      [] type = "End"      -> [width |-> 140, height |-> 60]
      [] type = "Email"    -> [width |-> 100, height |-> 100]

\* An absent optional label of an Edge (label?: string).
Absent == "absent"

\* An absent optional handle of an Edge (sourceHandle?, targetHandle?: number):
\* undefined, which is none of the handle numbers 0..3.
NoHandle == 0 - 1

----------------------------------------------------------------------------
(* Generic helpers *)

Range(s) == {s[i] : i \in 1..Len(s)}

Max(S) == CHOOSE x \in S : \A y \in S : y <= x

RECURSIVE SumSeq(_)
SumSeq(s) == IF s = <<>> THEN 0 ELSE Head(s) + SumSeq(Tail(s))

\* Array.prototype.indexOf, 1-based; 0 when absent (the code's -1).
IndexOf(s, x) ==
    IF \E i \in 1..Len(s) : s[i] = x
    THEN CHOOSE i \in 1..Len(s) : s[i] = x /\ \A j \in 1..(i-1) : s[j] # x
    ELSE 0

\* Array.prototype.splice(index, 1), 1-based.
RemoveAt(s, i) == SubSeq(s, 1, i-1) \o SubSeq(s, i+1, Len(s))

\* Set.prototype.add on a Set kept in insertion order.
SetAdd(s, x) == IF x \in Range(s) THEN s ELSE Append(s, x)

\* Map.prototype.set.
MapSet(m, k, v) == [x \in (DOMAIN m) \cup {k} |-> IF x = k THEN v ELSE m[x]]

\* (map.get(k) || 1) - 1: an absent key and a stored 0 both give 0.
DecOr1(m, k) == IF k \notin DOMAIN m \/ m[k] = 0 THEN 0 ELSE m[k] - 1

\* adj.get(u) || []
GetOrEmpty(m, k) == IF k \in DOMAIN m THEN m[k] ELSE <<>>

\* String.prototype.split on a one-token separator.
RECURSIVE Split(_, _)
Split(s, sep) ==
    LET i == IndexOf(s, sep)
    IN  IF i = 0 THEN <<s>>
        ELSE <<SubSeq(s, 1, i-1)>> \o Split(SubSeq(s, i+1, Len(s)), sep)

\* `${source}->${target}`
EdgeKey(source, target) == source \o <<"->">> \o target

\* `dummy-${u}-${v}-${i}`
DummyId(u, v, i) == <<"dummy-">> \o u \o <<"-">> \o v \o <<"-", ToString(i)>>

\* id.startsWith('dummy-')
StartsWithDummy(id) == Len(id) > 0 /\ id[1] = "dummy-"

NodeIds(ns) == [i \in 1..Len(ns) |-> ns[i].id]

----------------------------------------------------------------------------
(* findAndHandleCycles *)

\* Lines 43-47 throw a TypeError at the first edge whose source is no key of
\* adj (undefined.push) or whose target is no key of revAdj.
CyclesLoopThrows(ns, es) ==
    \E i \in 1..Len(es) :
        es[i].source \notin Range(NodeIds(ns)) \/ es[i].target \notin Range(NodeIds(ns))

\* The three maps after lines 13-16 and the loop of lines 43-47 (no throw).
TargetsFrom(es, u) ==
    LET sel == SelectSeq(es, LAMBDA e : e.source = u)
    IN  [i \in 1..Len(sel) |-> sel[i].target]

SourcesTo(es, v) ==
    LET sel == SelectSeq(es, LAMBDA e : e.target = v)
    IN  [i \in 1..Len(sel) |-> sel[i].source]

InitialAdj(ns, es) == [id \in Range(NodeIds(ns)) |-> TargetsFrom(es, id)]
InitialRevAdj(ns, es) == [id \in Range(NodeIds(ns)) |-> SourcesTo(es, id)]
InitialInDegree(ns, es) == [id \in Range(NodeIds(ns)) |-> Len(SourcesTo(es, id))]

\* dfs of lines 53-65; st = [visited, recursionStack, backEdges].
RECURSIVE dfs(_, _, _)
RECURSIVE dfsNeighbors(_, _, _, _)
\* dfsNeighbors without the test of recursionStack: every edge to a visited
\* node is taken for a back-edge.
RECURSIVE dfsNeighbors_AnyVisited(_, _, _, _)
dfsNeighbors_AnyVisited(adjM, nodeId, i, st) ==
    LET nbrs == GetOrEmpty(adjM, nodeId)
    IN  IF i > Len(nbrs) THEN st
        ELSE LET neighbor == nbrs[i]
             IN  IF neighbor \notin st.visited
                 THEN dfsNeighbors_AnyVisited(adjM, nodeId, i+1, dfs(adjM, neighbor, st))
                 ELSE dfsNeighbors_AnyVisited(adjM, nodeId, i+1,
                        [st EXCEPT !.backEdges = SetAdd(@, EdgeKey(nodeId, neighbor))])

dfsNeighbors(adjM, nodeId, i, st) ==
    LET nbrs == GetOrEmpty(adjM, nodeId)
    IN  IF i > Len(nbrs) THEN st
        ELSE LET neighbor == nbrs[i]
             IN  IF neighbor \notin st.visited
                 THEN dfsNeighbors(adjM, nodeId, i+1, dfs(adjM, neighbor, st))
                 ELSE IF neighbor \in st.recursionStack
                 THEN dfsNeighbors(adjM, nodeId, i+1,
                        [st EXCEPT !.backEdges = SetAdd(@, EdgeKey(nodeId, neighbor))])
                 ELSE dfsNeighbors(adjM, nodeId, i+1, st)

dfs(adjM, nodeId, st) ==
    LET entered == [st EXCEPT !.visited = @ \cup {nodeId},
                              !.recursionStack = @ \cup {nodeId}]
        after == dfsNeighbors(adjM, nodeId, 1, entered)
    IN  [after EXCEPT !.recursionStack = @ \ {nodeId}]

\* Lines 67-71: dfs from every node not yet visited, in input order.
RECURSIVE dfsAll(_, _, _, _)
dfsAll(adjM, ids, i, st) ==
    IF i > Len(ids) THEN st
    ELSE IF ids[i] \notin st.visited
         THEN dfsAll(adjM, ids, i+1, dfs(adjM, ids[i], st))
         ELSE dfsAll(adjM, ids, i+1, st)

FindBackEdges(adjM, ids) ==
    dfsAll(adjM, ids, 1,
           [visited |-> {}, recursionStack |-> {}, backEdges |-> <<>>]).backEdges

\* RemoveOneBackEdge without the decrement of the target's in-degree (line 81).
RemoveOneBackEdge_KeepInDegree(m, edgeId) ==
    LET parts == Split(edgeId, "->")
        source == parts[1]
        target == parts[2]
        adjList == GetOrEmpty(m.adj, source)
        index == IndexOf(adjList, target)
        adj1 == IF source \in DOMAIN m.adj /\ index > 0
                THEN [m.adj EXCEPT ![source] = RemoveAt(adjList, index)]
                ELSE m.adj
    IN  [adj |-> adj1, inDegree |-> m.inDegree]

\* One pass of the forEach of lines 74-82 for the i-th back-edge key.
RemoveOneBackEdge(m, edgeId) ==
    LET parts == Split(edgeId, "->")
        source == parts[1]
        target == parts[2]
        adjList == GetOrEmpty(m.adj, source)
        index == IndexOf(adjList, target)
        adj1 == IF source \in DOMAIN m.adj /\ index > 0
                THEN [m.adj EXCEPT ![source] = RemoveAt(adjList, index)]
                ELSE m.adj
    IN  [adj |-> adj1, inDegree |-> MapSet(m.inDegree, target, DecOr1(m.inDegree, target))]

RECURSIVE RemoveBackEdges(_, _, _)
RemoveBackEdges(m, keys, i) ==
    IF i > Len(keys) THEN m
    ELSE RemoveBackEdges(RemoveOneBackEdge(m, keys[i]), keys, i+1)

\* findAndHandleCycles: the maps it leaves and the set it returns.
findAndHandleCycles(ns, es) ==
    LET adj0 == InitialAdj(ns, es)
        back == FindBackEdges(adj0, NodeIds(ns))
        m == RemoveBackEdges([adj |-> adj0, inDegree |-> InitialInDegree(ns, es)], back, 1)
    IN  [adj |-> m.adj, revAdj |-> InitialRevAdj(ns, es),
         inDegree |-> m.inDegree, backEdges |-> back]

----------------------------------------------------------------------------
(* assignLayers *)

\* The for-loops of lines 93-100 over one queue; st = [inDegree, nextQueue].
RECURSIVE ProcessQueue(_, _, _, _, _)
ProcessQueue(adjM, queue, ui, vi, st) ==
    IF ui > Len(queue) THEN st
    ELSE LET nbrs == GetOrEmpty(adjM, queue[ui])
         IN  IF vi > Len(nbrs) THEN ProcessQueue(adjM, queue, ui+1, 1, st)
             ELSE LET v == nbrs[vi]
                      d == DecOr1(st.inDegree, v)
                  IN  ProcessQueue(adjM, queue, ui, vi+1,
                        [inDegree |-> MapSet(st.inDegree, v, d),
                         nextQueue |-> IF d = 0 THEN Append(st.nextQueue, v)
                                       ELSE st.nextQueue])

\* The while-loop of lines 90-102.
RECURSIVE LayerLoop(_, _, _, _)
LayerLoop(adjM, inDeg, queue, acc) ==
    IF queue = <<>> THEN [layers |-> acc, inDegree |-> inDeg]
    ELSE LET r == ProcessQueue(adjM, queue, 1, 1, [inDegree |-> inDeg, nextQueue |-> <<>>])
         IN  LayerLoop(adjM, r.inDegree, r.nextQueue, Append(acc, queue))

\* assignLayers: the layers it returns and the in-degree map it leaves.
assignLayers(ns, adjM, inDeg) ==
    LayerLoop(adjM, inDeg,
              SelectSeq(NodeIds(ns), LAMBDA id : id \in DOMAIN inDeg /\ inDeg[id] = 0),
              <<>>)

----------------------------------------------------------------------------
(* createVirtualGraph *)

\* layerMap of lines 109-110, layer indices 0-based as in the code; an id
\* listed in several layers keeps the last index set.
LayerMap(ls) ==
    [id \in UNION {Range(ls[i]) : i \in 1..Len(ls)} |->
        Max({i \in 1..Len(ls) : id \in Range(ls[i])}) - 1]

DummyNode(dummyId) ==
    [id |-> dummyId, type |-> "Process", position |-> [x |-> 0, y |-> 0],
     label |-> "", width |-> 1, height |-> 50]

VEdge(source, target) ==
    [id |-> <<"e-">> \o source \o <<"-">> \o target, source |-> source, target |-> target]

\* Lines 117-130 for one forward edge u -> v; st = [layers, dummyNodes, virtualEdges].
\* vLayer is undefined when v is in no layer: undefined - uLayer > 1 is false.
AddVirtual(st, layerMap, u, v) ==
    LET uLayer == layerMap[u]
        spans == v \in DOMAIN layerMap /\ layerMap[v] - uLayer > 1
    IN  IF spans
        THEN LET vLayer == layerMap[v]
                 n == vLayer - uLayer - 1
                 dummy(k) == DummyId(u, v, uLayer + k)
                 chain == [k \in 1..(n+1) |->
                             VEdge(IF k = 1 THEN u ELSE dummy(k-1),
                                   IF k = n+1 THEN v ELSE dummy(k))]
             IN  [layers |-> [i \in 1..Len(st.layers) |->
                                IF i - 1 > uLayer /\ i - 1 < vLayer
                                THEN Append(st.layers[i], dummy(i - 1 - uLayer))
                                ELSE st.layers[i]],
                  dummyNodes |-> st.dummyNodes \o
                                [k \in 1..n |-> <<dummy(k), DummyNode(dummy(k))>>],
                  virtualEdges |-> st.virtualEdges \o chain]
        ELSE [st EXCEPT !.virtualEdges = Append(@, VEdge(u, v))]

\* The loops of lines 112-133; a layer is read again at every step, since the
\* code appends dummies to later layers while it iterates.
RECURSIVE VirtualLoop(_, _, _, _, _, _)
VirtualLoop(adjM, layerMap, st, li, ui, vi) ==
    IF li > Len(st.layers) THEN st
    ELSE IF ui > Len(st.layers[li]) THEN VirtualLoop(adjM, layerMap, st, li+1, 1, 1)
    ELSE LET u == st.layers[li][ui]
             nbrs == GetOrEmpty(adjM, u)
         IN  IF vi > Len(nbrs) THEN VirtualLoop(adjM, layerMap, st, li, ui+1, 1)
             ELSE VirtualLoop(adjM, layerMap, AddVirtual(st, layerMap, u, nbrs[vi]),
                              li, ui, vi+1)

createVirtualGraph(ls, adjM) ==
    VirtualLoop(adjM, LayerMap(ls),
                [layers |-> ls, dummyNodes |-> <<>>, virtualEdges |-> <<>>], 1, 1, 1)

----------------------------------------------------------------------------
(* reduceCrossings *)

\* Array.prototype.sort((a, b) => a - b) on numbers.
RECURSIVE SortNumbers(_)
SortNumbers(s) ==
    IF s = <<>> THEN <<>>
    ELSE LET rest == SortNumbers(Tail(s))
             p == Cardinality({i \in 1..Len(rest) : rest[i] < Head(s)})
         IN  SubSeq(rest, 1, p) \o <<Head(s)>> \o SubSeq(rest, p+1, Len(rest))

\* median of lines 259-264, TIMES TWO (the mean of two positions may end in .5):
\* -2 stands for the code's -1.
\* median taking the lower of the two middle values of an even count.
median_LowerMiddle(arr) ==
    IF Len(arr) = 0 THEN -2
    ELSE LET sorted == SortNumbers(arr)
             mid == Len(sorted) \div 2
         IN  IF Len(sorted) % 2 # 0 THEN 2 * sorted[mid + 1]
             ELSE 2 * sorted[mid]

median(arr) ==
    IF Len(arr) = 0 THEN -2
    ELSE LET sorted == SortNumbers(arr)
             mid == Len(sorted) \div 2
         IN  IF Len(sorted) % 2 # 0 THEN 2 * sorted[mid + 1]
             ELSE sorted[mid] + sorted[mid + 1]

\* Array.prototype.sort with the comparator key[a] - key[b]: the stable sort
\* by key (every engine gives this order when the comparator is consistent).
RECURSIVE StableSortBy(_, _)
StableSortBy(s, key) ==
    IF s = <<>> THEN <<>>
    ELSE LET n == Len(s)
             front == StableSortBy(SubSeq(s, 1, n-1), key)
             p == Cardinality({i \in 1..Len(front) : key[front[i]] <= key[s[n]]})
         IN  SubSeq(front, 1, p) \o <<s[n]>> \o SubSeq(front, p+1, Len(front))

\* new Map(layer.map((id, pos) => [id, pos])): positions 0-based, the last
\* entry of an id listed twice wins.
PositionMap(layer) ==
    [id \in Range(layer) |-> Max({i \in 1..Len(layer) : layer[i] = id}) - 1]

\* The adjacency maps of lines 138-145: only the ids that occur get a key.
VirtualAdj(ves) ==
    [id \in {ves[i].source : i \in 1..Len(ves)} |-> TargetsFrom(ves, id)]
VirtualRevAdj(ves) ==
    [id \in {ves[i].target : i \in 1..Len(ves)} |-> SourcesTo(ves, id)]

\* layers[i].sort(...) of lines 152-158 and 163-169.
SortLayer(layer, nbrMap, posMap) ==
    LET key == [id \in Range(layer) |->
                  LET nbrs == GetOrEmpty(nbrMap, id)
                  IN  median([k \in 1..Len(nbrs) |-> posMap[nbrs[k]]])]
    IN  StableSortBy(layer, key)

RECURSIVE DownPass(_, _, _)
DownPass(ls, vRev, i) ==
    IF i > Len(ls) THEN ls
    ELSE DownPass([ls EXCEPT ![i] = SortLayer(ls[i], vRev, PositionMap(ls[i-1]))],
                  vRev, i+1)

\* UpPass stopping before the first layer (i > 0 for i >= 0).
RECURSIVE UpPass_SkipFirst(_, _, _)
UpPass_SkipFirst(ls, vAdj, i) ==
    IF i < 2 THEN ls
    ELSE UpPass_SkipFirst([ls EXCEPT ![i] = SortLayer(ls[i], vAdj, PositionMap(ls[i+1]))],
                          vAdj, i-1)

RECURSIVE UpPass(_, _, _)
UpPass(ls, vAdj, i) ==
    IF i < 1 THEN ls
    ELSE UpPass([ls EXCEPT ![i] = SortLayer(ls[i], vAdj, PositionMap(ls[i+1]))],
                vAdj, i-1)

\* The passes of the loop of lines 148-171 in the order they run.
RECURSIVE PassOrder(_)
PassOrder(iter) ==
    IF iter >= 4 THEN <<>>
    ELSE <<"down", "up">> \o PassOrder(iter + 1)

\* One pass over the layers ls.
RunPass(dir, ls, vAdj, vRev) ==
    IF dir = "down" THEN DownPass(ls, vRev, 2) ELSE UpPass(ls, vAdj, Len(ls) - 1)

\* The loop of lines 148-171 running the passes of plan on the layers ls: the
\* layers as each pass leaves them.
RECURSIVE SweepTrace(_, _, _, _)
RECURSIVE TraceFrom(_, _, _, _, _)
TraceFrom(dir, left, vAdj, vRev, rest) ==
    <<[dir |-> dir, layers |-> left]>> \o SweepTrace(left, vAdj, vRev, rest)

SweepTrace(ls, vAdj, vRev, plan) ==
    IF plan = <<>> THEN <<>>
    ELSE TraceFrom(Head(plan), RunPass(Head(plan), ls, vAdj, vRev), vAdj, vRev, Tail(plan))

\* reduceCrossings leaving out the nodes that no virtual edge touches.
reduceCrossings_DropIsolated(ls, ves) ==
    LET touched == {ves[k].source : k \in 1..Len(ves)} \cup {ves[k].target : k \in 1..Len(ves)}
    IN  SweepTrace([i \in 1..Len(ls) |-> SelectSeq(ls[i], LAMBDA id : id \in touched)],
                   VirtualAdj(ves), VirtualRevAdj(ves), PassOrder(0))

\* reduceCrossings: the layers each of its passes leaves; it returns those the
\* last pass left.
reduceCrossings(ls, ves) ==
    SweepTrace(ls, VirtualAdj(ves), VirtualRevAdj(ves), PassOrder(0))

\* Every prevLayerPos.get(n)! and nextLayerPos.get(n)! of the comparators finds
\* its key.  When one does not, the median is undefined or NaN, the comparator
\* is not consistent and ECMAScript leaves the order to the engine.
LookupsDefined(ls, ves) ==
    LET vAdj == VirtualAdj(ves)
        vRev == VirtualRevAdj(ves)
    IN  /\ \A i \in 2..Len(ls) : \A a \in Range(ls[i]) :
              Range(GetOrEmpty(vRev, a)) \subseteq Range(ls[i-1])
        /\ \A i \in 1..(Len(ls) - 1) : \A a \in Range(ls[i]) :
              Range(GetOrEmpty(vAdj, a)) \subseteq Range(ls[i+1])

PermutationsOf(s) == {[i \in 1..Len(s) |-> s[f[i]]] : f \in Permutations(1..Len(s))}

\* The orders an engine may leave the layers in: each layer permuted.
LayerwisePermutations(ls) ==
    {p \in [1..Len(ls) -> UNION {PermutationsOf(ls[i]) : i \in 1..Len(ls)}] :
        \A i \in 1..Len(ls) : p[i] \in PermutationsOf(ls[i])}

----------------------------------------------------------------------------
(* assignCoordinates (positions in half pixels) *)

\* new Map(list.map(n => [n.id, n])): the last node of an id wins.
NodeMapOf(ns) ==
    [id \in Range(NodeIds(ns)) |-> ns[Max({i \in 1..Len(ns) : ns[i].id = id})]]

\* new Map([...nodeMap, ...dummyNodes])
VirtualNodeMap(ns, dummies) ==
    LET real == NodeMapOf(ns)
        dummyIds == {dummies[i][1] : i \in 1..Len(dummies)}
    IN  [id \in (DOMAIN real) \cup dummyIds |->
            IF id \in dummyIds
            THEN dummies[Max({i \in 1..Len(dummies) : dummies[i][1] = id})][2]
            ELSE real[id]]

\* The size of a node along the stacking axis and across it.
StackSize(node, orient) == IF orient = "horizontal" THEN node.height ELSE node.width
FlowSize(node, orient) == IF orient = "horizontal" THEN node.width ELSE node.height
StackGap(orient) == IF orient = "horizontal" THEN Y_GAP ELSE X_GAP
FlowGap(orient) == IF orient = "horizontal" THEN X_GAP ELSE Y_GAP

\* layerHeights / layerWidths of lines 179-181 and 198-200.
LayerExtent(layer, nodeMap, orient) ==
    SumSeq([k \in 1..Len(layer) |-> StackSize(nodeMap[layer[k]], orient)])
        + (Len(layer) - 1) * StackGap(orient)

\* The inner for-loop of lines 189-194 / 208-213: the nodes of one layer, the
\* first at stack coordinate start2 (half pixels), all at flow coordinate flow2.
\* PlaceLayer without `currentY += node.height + Y_GAP` (`currentX += ...`).
RECURSIVE PlaceLayer_NoAdvance(_, _, _, _, _, _)
PlaceLayer_NoAdvance(layer, nodeMap, orient, k, flow2, stack2) ==
    IF k > Len(layer) THEN <<>>
    ELSE LET node == nodeMap[layer[k]]
             pos == IF orient = "horizontal" THEN [x |-> flow2, y |-> stack2]
                    ELSE [x |-> stack2, y |-> flow2]
         IN  <<[node EXCEPT !.position = pos]>> \o
             PlaceLayer_NoAdvance(layer, nodeMap, orient, k+1, flow2, stack2)

\* PlaceLayer with the two gaps taken for each other.
RECURSIVE PlaceLayer_OtherGap(_, _, _, _, _, _)
PlaceLayer_OtherGap(layer, nodeMap, orient, k, flow2, stack2) ==
    IF k > Len(layer) THEN <<>>
    ELSE LET node == nodeMap[layer[k]]
             pos == IF orient = "horizontal" THEN [x |-> flow2, y |-> stack2]
                    ELSE [x |-> stack2, y |-> flow2]
         IN  <<[node EXCEPT !.position = pos]>> \o
             PlaceLayer_OtherGap(layer, nodeMap, orient, k+1, flow2,
                                 stack2 + 2 * (StackSize(node, orient) + FlowGap(orient)))

RECURSIVE PlaceLayer(_, _, _, _, _, _)
PlaceLayer(layer, nodeMap, orient, k, flow2, stack2) ==
    IF k > Len(layer) THEN <<>>
    ELSE LET node == nodeMap[layer[k]]
             pos == IF orient = "horizontal" THEN [x |-> flow2, y |-> stack2]
                    ELSE [x |-> stack2, y |-> flow2]
         IN  <<[node EXCEPT !.position = pos]>> \o
             PlaceLayer(layer, nodeMap, orient, k+1, flow2,
                        stack2 + 2 * (StackSize(node, orient) + StackGap(orient)))

\* maxW / maxH of a layer, starting from 0.
MaxFlowSize(layer, nodeMap, orient) ==
    Max({0} \cup {FlowSize(nodeMap[layer[k]], orient) : k \in 1..Len(layer)})

\* PlaceLayers starting every layer at 50, without the centring offset.
RECURSIVE PlaceLayers_NoCentring(_, _, _, _, _, _)
PlaceLayers_NoCentring(ls, nodeMap, orient, i, flow2, maxExtent) ==
    IF i > Len(ls) THEN <<>>
    ELSE PlaceLayer(ls[i], nodeMap, orient, 1, flow2, 100) \o
         PlaceLayers_NoCentring(ls, nodeMap, orient, i+1,
                     flow2 + 2 * (MaxFlowSize(ls[i], nodeMap, orient) + FlowGap(orient)),
                     maxExtent)

\* PlaceLayers without `currentX += maxW + X_GAP` (`currentY += maxH + Y_GAP`).
RECURSIVE PlaceLayers_SameFlow(_, _, _, _, _, _)
PlaceLayers_SameFlow(ls, nodeMap, orient, i, flow2, maxExtent) ==
    IF i > Len(ls) THEN <<>>
    ELSE LET extent == LayerExtent(ls[i], nodeMap, orient)
             start2 == (maxExtent - extent) + 100
         IN  PlaceLayer(ls[i], nodeMap, orient, 1, flow2, start2) \o
             PlaceLayers_SameFlow(ls, nodeMap, orient, i+1, flow2, maxExtent)

\* layers.forEach of lines 185-196 / 204-215.
RECURSIVE PlaceLayers(_, _, _, _, _, _)
PlaceLayers(ls, nodeMap, orient, i, flow2, maxExtent) ==
    IF i > Len(ls) THEN <<>>
    ELSE LET extent == LayerExtent(ls[i], nodeMap, orient)
             \* (max - extent) / 2 + 50, in half pixels
             start2 == (maxExtent - extent) + 100
         IN  PlaceLayer(ls[i], nodeMap, orient, 1, flow2, start2) \o
             PlaceLayers(ls, nodeMap, orient, i+1,
                         flow2 + 2 * (MaxFlowSize(ls[i], nodeMap, orient) + FlowGap(orient)),
                         maxExtent)

assignCoordinates(ls, nodeMap, orient) ==
    PlaceLayers(ls, nodeMap, orient, 1, 100,
                Max({LayerExtent(ls[i], nodeMap, orient) : i \in 1..Len(ls)}))

----------------------------------------------------------------------------
(* assignEdgeHandles *)

BackEdgeHandle(orient) == IF orient = "horizontal" THEN 2 ELSE 1

\* Lines 232-254: the handles of a forward edge; 10 px are 20 half pixels.
ForwardHandles(source, target, orient) ==
    IF orient = "horizontal"
    THEN IF source.position.y > target.position.y + 20 THEN <<0, 2>>
         ELSE IF source.position.y < target.position.y - 20 THEN <<2, 0>>
         ELSE <<1, 3>>
    ELSE IF source.position.x > target.position.x + 20 THEN <<3, 1>>
         ELSE IF source.position.x < target.position.x - 20 THEN <<1, 3>>
         ELSE <<2, 0>>

\* HandleEdge building the returned edge anew instead of spreading ...edge:
\* the label is lost.
HandleEdge_NoSpread(edge, nodeMap, back, orient) ==
    IF edge.source \notin DOMAIN nodeMap \/ edge.target \notin DOMAIN nodeMap
    THEN edge
    ELSE IF EdgeKey(edge.source, edge.target) \in Range(back)
    THEN [edge EXCEPT !.label = Absent,
                      !.sourceHandle = BackEdgeHandle(orient),
                      !.targetHandle = BackEdgeHandle(orient)]
    ELSE LET h == ForwardHandles(nodeMap[edge.source], nodeMap[edge.target], orient)
         IN  [edge EXCEPT !.label = Absent, !.sourceHandle = h[1], !.targetHandle = h[2]]

\* The callback of edges.map, lines 221-255.
HandleEdge(edge, nodeMap, back, orient) ==
    IF edge.source \notin DOMAIN nodeMap \/ edge.target \notin DOMAIN nodeMap
    THEN edge
    ELSE IF EdgeKey(edge.source, edge.target) \in Range(back)
    THEN [edge EXCEPT !.sourceHandle = BackEdgeHandle(orient),
                      !.targetHandle = BackEdgeHandle(orient)]
    ELSE LET h == ForwardHandles(nodeMap[edge.source], nodeMap[edge.target], orient)
         IN  [edge EXCEPT !.sourceHandle = h[1], !.targetHandle = h[2]]

assignEdgeHandles(es, nodeMap, back, orient) ==
    [i \in 1..Len(es) |-> HandleEdge(es[i], nodeMap, back, orient)]

----------------------------------------------------------------------------
(* The inputs of a call *)

\* Bounds of the exhaustive family: every edge list of at most MaxEdges edges
\* over at most MaxNodes nodes and one id that names no node.
MaxNodes == 2
MaxEdges == 3

NodeNames == <<"n1", "n2", "n3", "n4", "n5", "n6", "n7">>
GhostId == <<"ghost">>

\* The shape types given to the nodes n1, n2, ... of an input: every type
\* occurs, n1 and n5 are of one size, and so are n2 and n6.
MixedTypes == <<"Start", "Decision", "Email", "Process", "End", "Decision", "Email">>

MakeNodes(k, profile) ==
    [i \in 1..k |->
        [id |-> <<NodeNames[i]>>, type |-> profile[i], position |-> [x |-> 0, y |-> 0],
         label |-> "", width |-> SHAPE_DIMENSIONS(profile[i]).width,
         height |-> SHAPE_DIMENSIONS(profile[i]).height]]

\* The i-th edge of an input: odd edges carry a label, and two edges of three
\* carry handles left by the editor.
MakeEdges(pairs) ==
    [i \in 1..Len(pairs) |->
        [id |-> <<"e", ToString(i)>>, source |-> pairs[i][1], target |-> pairs[i][2],
         label |-> IF i % 2 = 1 THEN "L" ELSE Absent,
         sourceHandle |-> IF i % 3 = 0 THEN NoHandle ELSE i % 4,
         targetHandle |-> IF i % 3 = 0 THEN NoHandle ELSE (i + 1) % 4]]

IdsUpTo(k) == {<<NodeNames[i]>> : i \in 1..k}

\* Bounds of the wide family: WideNodes nodes and at most WideEdges different
\* edges ni -> nj with i < j, listed in the order of (i, j).
WideNodes == 5
WideEdges == 4

ForwardPairs(k) == {p \in (1..k) \X (1..k) : p[1] < p[2]}

RECURSIVE InOrder(_)
InOrder(S) ==
    IF S = {} THEN <<>>
    ELSE LET m == CHOOSE p \in S : \A q \in S :
                      p[1] < q[1] \/ (p[1] = q[1] /\ p[2] <= q[2])
         IN  <<m>> \o InOrder(S \ {m})

NamedPairs(ps) == [i \in 1..Len(ps) |-> <<<<NodeNames[ps[i][1]]>>, <<NodeNames[ps[i][2]]>>>>]

\* Bound of the twin family: TwinNodes nodes and the edges ni -> nj with i < j,
\* each left out, listed once or listed twice, in the order of (i, j).
TwinNodes == 3

\* The pairs of ps, the pair p listed times[p] times.
RECURSIVE Repeated(_, _)
Repeated(ps, times) ==
    IF ps = <<>> THEN <<>>
    ELSE [k \in 1..times[Head(ps)] |-> Head(ps)] \o Repeated(Tail(ps), times)

Unset == <<>>

\* The inputs are
\*  - every edge list of at most MaxEdges edges over at most MaxNodes nodes:
\*    self-loops, repeated edges and cycles included;
\*  - every edge list of fewer than MaxEdges edges over these nodes and the
\*    ghost id, with at least one dangling edge;
\*  - the wide family;
\*  - the twin family;
\* each in either orientation.
Init ==
    /\ pc = "start"
    /\ \/ \E k \in 0..MaxNodes, n \in 0..MaxEdges :
             \E ps \in [1..n -> IdsUpTo(k) \X IdsUpTo(k)] :
                 nodes = MakeNodes(k, MixedTypes) /\ edges = MakeEdges(ps)
       \/ \E k \in 0..MaxNodes, n \in 1..(MaxEdges - 1) :
             \E ps \in [1..n -> (IdsUpTo(k) \cup {GhostId}) \X (IdsUpTo(k) \cup {GhostId})] :
                 /\ \E i \in 1..n : GhostId \in {ps[i][1], ps[i][2]}
                 /\ nodes = MakeNodes(k, MixedTypes) /\ edges = MakeEdges(ps)
       \/ \E S \in SUBSET ForwardPairs(WideNodes) :
             /\ Cardinality(S) <= WideEdges
             /\ nodes = MakeNodes(WideNodes, MixedTypes)
             /\ edges = MakeEdges(NamedPairs(InOrder(S)))
       \/ \E times \in [ForwardPairs(TwinNodes) -> 0..2] :
             /\ nodes = MakeNodes(TwinNodes, MixedTypes)
             /\ edges = MakeEdges(NamedPairs(Repeated(InOrder(ForwardPairs(TwinNodes)), times)))
    /\ orientation \in {"horizontal", "vertical"}
    /\ adj = Unset /\ revAdj = Unset /\ inDegree = Unset /\ backEdges = Unset
    /\ layers = Unset /\ dummyNodes = Unset /\ virtualEdges = Unset
    /\ positionedNodes = Unset /\ newNodes = Unset /\ newEdges = Unset
    /\ call = 1 /\ relation = "first" /\ first = Unset
    /\ reduction = Unset

----------------------------------------------------------------------------
(* autoLayout, statement by statement *)

\* Line 11: an empty node list returns at once.
ReturnEmpty ==
    /\ pc = "start" /\ Len(nodes) = 0
    /\ newNodes' = <<>> /\ newEdges' = <<>>
    /\ pc' = "done"
    /\ UNCHANGED caller
    /\ UNCHANGED reduction
    /\ UNCHANGED <<nodes, edges, orientation, adj, revAdj, inDegree, backEdges,
                   layers, dummyNodes, virtualEdges, positionedNodes>>

\* Line 18, when the loop of lines 43-47 throws: the TypeError leaves autoLayout.
CyclesThrow ==
    /\ pc = "start" /\ Len(nodes) # 0
    /\ CyclesLoopThrows(nodes, edges)
    /\ pc' = "threw"
    /\ UNCHANGED caller
    /\ UNCHANGED reduction
    /\ UNCHANGED <<nodes, edges, orientation, adj, revAdj, inDegree, backEdges,
                   layers, dummyNodes, virtualEdges, positionedNodes, newNodes, newEdges>>

\* Lines 13-18.
CallFindAndHandleCycles ==
    /\ pc = "start" /\ Len(nodes) # 0
    /\ ~CyclesLoopThrows(nodes, edges)
    /\ \E r \in {findAndHandleCycles(nodes, edges)} :
          /\ adj' = r.adj /\ revAdj' = r.revAdj
          /\ inDegree' = r.inDegree /\ backEdges' = r.backEdges
    /\ pc' = "cycles"
    /\ UNCHANGED caller
    /\ UNCHANGED reduction
    /\ UNCHANGED <<nodes, edges, orientation, layers, dummyNodes, virtualEdges,
                   positionedNodes, newNodes, newEdges>>

\* Line 20.
CallAssignLayers ==
    /\ pc = "cycles"
    /\ \E r \in {assignLayers(nodes, adj, inDegree)} :
          layers' = r.layers /\ inDegree' = r.inDegree
    /\ pc' = "layered"
    /\ UNCHANGED caller
    /\ UNCHANGED reduction
    /\ UNCHANGED <<nodes, edges, orientation, adj, revAdj, backEdges, dummyNodes,
                   virtualEdges, positionedNodes, newNodes, newEdges>>

\* A fallback that returns the nodes where they were.
ReturnFallback_Untouched ==
    /\ pc = "layered" /\ Len(layers) = 0 /\ Len(nodes) > 0
    /\ newNodes' = nodes
    /\ newEdges' = edges
    /\ pc' = "done"
    /\ UNCHANGED caller
    /\ UNCHANGED reduction
    /\ UNCHANGED <<nodes, edges, orientation, adj, revAdj, inDegree, backEdges,
                   layers, dummyNodes, virtualEdges, positionedNodes>>

\* Lines 22-25: no layer at all, the vertical stack (positions in half pixels).
ReturnFallback ==
    /\ pc = "layered" /\ Len(layers) = 0 /\ Len(nodes) > 0
    /\ newNodes' = [i \in 1..Len(nodes) |->
                      [nodes[i] EXCEPT !.position = [x |-> 2 * 50, y |-> 2 * (50 + (i-1) * 150)]]]
    /\ newEdges' = edges
    /\ pc' = "done"
    /\ UNCHANGED caller
    /\ UNCHANGED reduction
    /\ UNCHANGED <<nodes, edges, orientation, adj, revAdj, inDegree, backEdges,
                   layers, dummyNodes, virtualEdges, positionedNodes>>

\* Line 27 (createVirtualGraph appends the dummies to layers in place).
CallCreateVirtualGraph ==
    /\ pc = "layered" /\ ~(Len(layers) = 0 /\ Len(nodes) > 0)
    /\ \E r \in {createVirtualGraph(layers, adj)} :
          /\ layers' = r.layers /\ dummyNodes' = r.dummyNodes
          /\ virtualEdges' = r.virtualEdges
    /\ pc' = "virtual"
    /\ UNCHANGED caller
    /\ UNCHANGED reduction
    /\ UNCHANGED <<nodes, edges, orientation, adj, revAdj, inDegree, backEdges,
                   positionedNodes, newNodes, newEdges>>

\* Line 30 (reduceCrossings sorts layers in place); reduction keeps the layers
\* it was given and those each pass left.  With a lookup that finds no key the
\* passes leave orders of the engine's choice.
CallReduceCrossings ==
    /\ pc = "virtual"
    /\ IF LookupsDefined(layers, virtualEdges)
       THEN reduction' = [given |-> layers,
                          passes |-> reduceCrossings(layers, virtualEdges)]
       ELSE \E left \in [1..Len(PassOrder(0)) -> LayerwisePermutations(layers)] :
                reduction' = [given |-> layers,
                              passes |-> [k \in 1..Len(PassOrder(0)) |->
                                            [dir |-> PassOrder(0)[k], layers |-> left[k]]]]
    /\ layers' = reduction'.passes[Len(reduction'.passes)].layers
    /\ pc' = "ordered"
    /\ UNCHANGED caller
    /\ UNCHANGED <<nodes, edges, orientation, adj, revAdj, inDegree, backEdges,
                   dummyNodes, virtualEdges, positionedNodes, newNodes, newEdges>>

\* Lines 28 and 32.
CallAssignCoordinates ==
    /\ pc = "ordered"
    /\ positionedNodes' =
          assignCoordinates(layers, VirtualNodeMap(nodes, dummyNodes), orientation)
    /\ pc' = "positioned"
    /\ UNCHANGED caller
    /\ UNCHANGED reduction
    /\ UNCHANGED <<nodes, edges, orientation, adj, revAdj, inDegree, backEdges,
                   layers, dummyNodes, virtualEdges, newNodes, newEdges>>

\* Lines 33-39.
ReturnLayout ==
    /\ pc = "positioned"
    /\ newNodes' = SelectSeq(positionedNodes, LAMBDA n : ~StartsWithDummy(n.id))
    /\ newEdges' = assignEdgeHandles(edges, NodeMapOf(positionedNodes), backEdges, orientation)
    /\ pc' = "done"
    /\ UNCHANGED caller
    /\ UNCHANGED reduction
    /\ UNCHANGED <<nodes, edges, orientation, adj, revAdj, inDegree, backEdges,
                   layers, dummyNodes, virtualEdges, positionedNodes>>

\* A handle value other than h.
TurnedHandle(h) == IF h = 3 THEN NoHandle ELSE h + 1

\* The same edges carrying other sourceHandle and targetHandle values.
OtherHandles(es) ==
    [i \in 1..Len(es) |->
        [es[i] EXCEPT !.sourceHandle = TurnedHandle(es[i].sourceHandle),
                      !.targetHandle = TurnedHandle(es[i].targetHandle)]]

OtherOrientation(orient) == IF orient = "horizontal" THEN "vertical" ELSE "horizontal"

\* Bound of the second call: an input of at most AgainNodes nodes is laid out
\* a second time.
AgainNodes == 3

\* The caller calls autoLayout again after the first call returned: on what it
\* returned (handleAutoLayout lays out the project the last layout was stored
\* in), on the first input in the other orientation (the vertical run after
\* the horizontal one: the pair of runs is the same in either order), or on
\* the first input with other handle values (after a vertical run: the input
\* handles are read in neither orientation).
CallAgain ==
    /\ pc = "done" /\ call = 1
    /\ Len(nodes) <= AgainNodes
    /\ \E rel \in {"fedback", "handles", "transposed"} :
          /\ rel = "transposed" => orientation = "horizontal"
          /\ rel = "handles" => orientation = "vertical"
          /\ relation' = rel
          /\ nodes' = IF rel = "fedback" THEN newNodes ELSE nodes
          /\ edges' = IF rel = "fedback" THEN newEdges
                      ELSE IF rel = "handles" THEN OtherHandles(edges)
                      ELSE edges
          /\ orientation' = IF rel = "transposed" THEN OtherOrientation(orientation)
                            ELSE orientation
    /\ first' = [nodes |-> nodes, edges |-> edges, orientation |-> orientation,
                 backEdges |-> backEdges, layers |-> layers,
                 newNodes |-> newNodes, newEdges |-> newEdges]
    /\ call' = 2 /\ pc' = "start"
    /\ adj' = Unset /\ revAdj' = Unset /\ inDegree' = Unset /\ backEdges' = Unset
    /\ layers' = Unset /\ dummyNodes' = Unset /\ virtualEdges' = Unset
    /\ positionedNodes' = Unset /\ newNodes' = Unset /\ newEdges' = Unset
    /\ reduction' = Unset

Next ==
    \/ ReturnEmpty
    \/ CyclesThrow
    \/ CallFindAndHandleCycles
    \/ CallAssignLayers
    \/ ReturnFallback
    \/ CallCreateVirtualGraph
    \/ CallReduceCrossings
    \/ CallAssignCoordinates
    \/ ReturnLayout
    \/ CallAgain

Spec == Init /\ [][Next]_vars

----------------------------------------------------------------------------
(* Vocabulary of the properties *)

InputIds == Range(NodeIds(nodes))

NoRepeats(s) == \A i, j \in 1..Len(s) : i # j => s[i] # s[j]

\* An input edge both of whose ends are input nodes.
IsProper(e) == e.source \in InputIds /\ e.target \in InputIds

\* The pair of an input edge is in the back-edge set.
IsBackEdge(e) == EdgeKey(e.source, e.target) \in Range(backEdges)

\* The input has two edges with the same (source, target) pair.
HasParallelEdges ==
    \E i, j \in 1..Len(edges) :
        i # j /\ edges[i].source = edges[j].source /\ edges[i].target = edges[j].target

\* The ids reachable from the ids of S in at most n further steps of adjM.
RECURSIVE ReachableIn(_, _, _)
ReachableIn(adjM, S, n) ==
    IF n = 0 THEN S
    ELSE ReachableIn(adjM, S \cup UNION {Range(GetOrEmpty(adjM, u)) : u \in S}, n - 1)

HasCycle(adjM) ==
    \E u \in DOMAIN adjM :
        u \in ReachableIn(adjM, Range(adjM[u]), Cardinality(DOMAIN adjM))

\* The number of times an id is listed in the layers.
TimesInLayers(id) ==
    Cardinality({p \in (1..Len(layers)) \X (1..Len(nodes) + Len(dummyNodes)) :
                    p[2] <= Len(layers[p[1]]) /\ layers[p[1]][p[2]] = id})

\* Coordinates (half pixels) of a positioned node along and across the flow.
FlowCoord(n) == IF orientation = "horizontal" THEN n.position.x ELSE n.position.y
StackCoord(n) == IF orientation = "horizontal" THEN n.position.y ELSE n.position.x

\* assignCoordinates pushes the nodes layer by layer: the k-th node of layer i.
LayerOffset(i) == SumSeq([j \in 1..(i-1) |-> Len(layers[j])])
PlacedAt(i, k) == positionedNodes[LayerOffset(i) + k]

Returned(id) == \E i \in 1..Len(newNodes) : newNodes[i].id = id
ReturnedNode(id) == newNodes[CHOOSE i \in 1..Len(newNodes) : newNodes[i].id = id]

----------------------------------------------------------------------------
(* Claims *)

\* C1: when autoLayout returns, the ids of newNodes are exactly the ids of the
\* input nodes, each once, and none is a dummy id.
C1_Coverage ==
    pc = "done" =>
        /\ Range(NodeIds(newNodes)) = InputIds
        /\ NoRepeats(NodeIds(newNodes))
        /\ \A i \in 1..Len(newNodes) : ~StartsWithDummy(newNodes[i].id)

\* C2: autoLayout never throws, whatever the edges refer to.
C2_NeverThrows == pc # "threw"

\* C3 as claimed: whenever autoLayout returns, newEdges holds the input edges:
\* same ids, sources, targets and labels, in the same number.
SameEdgesButHandles ==
    /\ Len(newEdges) = Len(edges)
    /\ \A i \in 1..Len(edges) :
          /\ newEdges[i].id = edges[i].id
          /\ newEdges[i].source = edges[i].source
          /\ newEdges[i].target = edges[i].target
          /\ newEdges[i].label = edges[i].label

C3_EdgesKept_Original == pc = "done" => SameEdgesButHandles

\* C3 amended: whenever autoLayout returns for a non-empty node list, newEdges
\* holds the input edges, only the handles may differ; for an empty node list
\* it returns no edge.
C3_EdgesKept ==
    pc = "done" =>
        IF Len(nodes) = 0 THEN newEdges = <<>> ELSE SameEdgesButHandles

C3_Witness ==
    /\ pc = "done" /\ Len(nodes) > 0
    /\ \E i \in 1..Len(edges) :
          /\ edges[i].label # Absent
          /\ newEdges[i].sourceHandle # edges[i].sourceHandle

\* C4: after assignLayers every input node id is listed in the layers exactly once.
C4_EveryNodeInOneLayer ==
    pc = "layered" => \A id \in InputIds : TimesInLayers(id) = 1

\* C5: after findAndHandleCycles the forward adjacency map has no directed cycle.
C5_ResidualAcyclic == pc = "cycles" => ~HasCycle(adj)

\* C6: for every input edge between input nodes whose pair is not a back-edge,
\* the returned target lies strictly further along the flow axis than the source.
C6_LayerMonotonic ==
    pc = "done" =>
        \A i \in 1..Len(edges) :
            (IsProper(edges[i]) /\ ~IsBackEdge(edges[i])) =>
                /\ Returned(edges[i].source) /\ Returned(edges[i].target)
                /\ FlowCoord(ReturnedNode(edges[i].target))
                     > FlowCoord(ReturnedNode(edges[i].source))

\* C7: after createVirtualGraph every virtual edge leads from a node of some
\* layer L to a node of layer L+1.
C7_VirtualEdgesAdjacent ==
    pc = "virtual" =>
        \A i \in 1..Len(virtualEdges) :
            \E L \in 1..(Len(layers) - 1) :
                /\ virtualEdges[i].source \in Range(layers[L])
                /\ virtualEdges[i].target \in Range(layers[L+1])
                /\ TimesInLayers(virtualEdges[i].source) >= 1
                /\ \A M \in 1..Len(layers) :
                      /\ virtualEdges[i].source \in Range(layers[M]) => M = L
                      /\ virtualEdges[i].target \in Range(layers[M]) => M = L + 1

\* C8: of two nodes assignCoordinates places in one layer, the later one starts
\* strictly after the end of the earlier one along the stacking axis.
C8_NoOverlapInLayer ==
    pc \in {"positioned", "done"} =>
        \A i \in 1..Len(layers) : \A k, m \in 1..Len(layers[i]) :
            k < m =>
                IF orientation = "horizontal"
                THEN PlacedAt(i, m).position.y
                       > PlacedAt(i, k).position.y + 2 * PlacedAt(i, k).height
                ELSE PlacedAt(i, m).position.x
                       > PlacedAt(i, k).position.x + 2 * PlacedAt(i, k).width

C8_Witness ==
    /\ pc = "positioned"
    /\ \E i \in 1..Len(layers) :
          /\ Len(layers[i]) >= 3
          /\ \E k \in 1..Len(layers[i]) : StartsWithDummy(layers[i][k])

\* Two returned nodes of layer i, p before q along the stacking axis.
ReturnedPairOfLayer(i, p, q) ==
    /\ p.id \in Range(layers[i]) /\ q.id \in Range(layers[i])
    /\ StackCoord(p) < StackCoord(q)

\* q starts one inter-node gap (120 px down a column, 200 px along a row) after
\* the end of p.
ExactGap(p, q) ==
    IF orientation = "horizontal"
    THEN q.position.y = p.position.y + 2 * (p.height + 120)
    ELSE q.position.x = p.position.x + 2 * (p.width + 200)

\* C9 as claimed: two returned nodes of a layer with no other returned node of
\* that layer between them are exactly one gap apart.
C9_ExactGap_Original ==
    pc = "done" =>
        \A i \in 1..Len(layers) : \A p, q \in Range(newNodes) :
            (/\ ReturnedPairOfLayer(i, p, q)
             /\ ~\E r \in Range(newNodes) :
                    /\ r.id \in Range(layers[i])
                    /\ StackCoord(p) < StackCoord(r) /\ StackCoord(r) < StackCoord(q))
            => ExactGap(p, q)

\* C9 amended: two returned nodes of a layer with no other node that
\* assignCoordinates placed in that layer, dummy nodes included, between them
\* are exactly one gap apart.
C9_ExactGap ==
    pc = "done" =>
        \A i \in 1..Len(layers) : \A p, q \in Range(newNodes) :
            (/\ ReturnedPairOfLayer(i, p, q)
             /\ ~\E k \in 1..Len(layers[i]) :
                    /\ StackCoord(p) < StackCoord(PlacedAt(i, k))
                    /\ StackCoord(PlacedAt(i, k)) < StackCoord(q))
            => ExactGap(p, q)

C9_Witness ==
    /\ pc = "done"
    /\ \E i \in 1..Len(layers) : \E p, q \in Range(newNodes) :
          /\ ReturnedPairOfLayer(i, p, q)
          /\ ExactGap(p, q)
          /\ \E k \in 1..Len(layers[i]) : StartsWithDummy(layers[i][k])

\* C10: every input edge whose pair is in the back-edge set is returned with
\* the return handles: 2 and 2 in horizontal, 1 and 1 in vertical orientation.
C10_BackEdgeHandles ==
    pc = "done" =>
        \A i \in 1..Len(edges) :
            IsBackEdge(edges[i]) =>
                /\ i <= Len(newEdges)
                /\ newEdges[i].sourceHandle = (IF orientation = "horizontal" THEN 2 ELSE 1)
                /\ newEdges[i].targetHandle = (IF orientation = "horizontal" THEN 2 ELSE 1)

\* The claims C1, C4, C5, C6, C7 and C10 on the inputs without two edges of the
\* same (source, target) pair, where findAndHandleCycles removes every
\* back-edge it found.
SimpleGraph_C1 == HasParallelEdges \/ C1_Coverage
SimpleGraph_C4 == HasParallelEdges \/ C4_EveryNodeInOneLayer
SimpleGraph_C5 == HasParallelEdges \/ C5_ResidualAcyclic
SimpleGraph_C6 == HasParallelEdges \/ C6_LayerMonotonic
SimpleGraph_C7 == HasParallelEdges \/ C7_VirtualEdgesAdjacent
SimpleGraph_C10 == HasParallelEdges \/ C10_BackEdgeHandles

\* The handles the claim C11 gives an edge from s to t (returned nodes,
\* positions in half pixels: 10 px are 20).
HandlesByPosition(s, t) ==
    IF orientation = "horizontal"
    THEN IF s.position.y > t.position.y + 20 THEN <<0, 2>>
         ELSE IF s.position.y < t.position.y - 20 THEN <<2, 0>>
         ELSE <<1, 3>>
    ELSE IF s.position.x > t.position.x + 20 THEN <<3, 1>>
         ELSE IF s.position.x < t.position.x - 20 THEN <<1, 3>>
         ELSE <<2, 0>>

\* C11: every input edge between input nodes whose pair is not a back-edge is
\* returned with the handles its ends' final positions call for: across the
\* flow when the ends are more than 10 px apart on the cross axis, along the
\* flow otherwise.
C11_ForwardHandles ==
    pc = "done" =>
        \A i \in 1..Len(edges) :
            (IsProper(edges[i]) /\ ~IsBackEdge(edges[i])) =>
                /\ i <= Len(newEdges)
                /\ Returned(edges[i].source) /\ Returned(edges[i].target)
                /\ <<newEdges[i].sourceHandle, newEdges[i].targetHandle>>
                     = HandlesByPosition(ReturnedNode(edges[i].source),
                                         ReturnedNode(edges[i].target))

SimpleGraph_C11 == HasParallelEdges \/ C11_ForwardHandles

\* On the simple graphs each of the six cases of C11 happens.
C11_Cases ==
    /\ pc = "done" /\ ~HasParallelEdges
    /\ \E i \in 1..Len(edges) :
          /\ IsProper(edges[i]) /\ ~IsBackEdge(edges[i])
          /\ <<newEdges[i].sourceHandle, newEdges[i].targetHandle>>
               = (IF orientation = "horizontal" THEN <<0, 2>> ELSE <<3, 1>>)

\* C12: after findAndHandleCycles no node's forward adjacency list holds the
\* node itself, and createVirtualGraph makes no virtual edge from a node to
\* itself; every self-loop's pair is in the back-edge set.
C12_SelfLoopsLeftOut ==
    /\ pc \in {"cycles", "layered", "virtual", "ordered", "positioned", "done"} =>
          /\ \A u \in DOMAIN adj : u \notin Range(adj[u])
          /\ \A i \in 1..Len(edges) :
                (IsProper(edges[i]) /\ edges[i].source = edges[i].target /\ Len(nodes) > 0)
                    => IsBackEdge(edges[i])
    /\ pc \in {"virtual", "ordered", "positioned", "done"} =>
          \A i \in 1..Len(virtualEdges) :
              virtualEdges[i].source # virtualEdges[i].target

SimpleGraph_C12 == HasParallelEdges \/ C12_SelfLoopsLeftOut

\* A self-loop beside other edges went through every stage.
C12_Cases ==
    /\ pc = "done" /\ ~HasParallelEdges /\ Len(virtualEdges) > 0
    /\ \E i \in 1..Len(edges) : edges[i].source = edges[i].target

----------------------------------------------------------------------------
(* The renderer's test for loop geometry (pathService.ts, getOrthogonalPath) *)

\* A renderer that took equal handles for the mark of a loop.
IsLoopback_ByHandles(edge) == edge.sourceHandle = edge.targetHandle

\* Line 24 of pathService.ts: if (edge.source === edge.target), the loopback path.
IsLoopback(edge) == edge.source = edge.target

\* The handle pairs the generic rules give an edge between two different
\* nodes in the orientation of the call: the forward pairs and the return pair.
GenericPairs ==
    IF orientation = "horizontal"
    THEN {<<0, 2>>, <<2, 0>>, <<1, 3>>, <<2, 2>>}
    ELSE {<<3, 1>>, <<1, 3>>, <<2, 0>>, <<1, 1>>}

IsSelfLoop(e) == IsProper(e) /\ e.source = e.target

----------------------------------------------------------------------------
(* Claims about two calls *)

\* C14: a second call on the first input with other sourceHandle and
\* targetHandle values returns the newNodes and the newEdges of the first call.
C14_InputHandlesIgnored ==
    (call = 2 /\ relation = "handles") =>
        /\ pc # "threw"
        /\ pc = "done" => (newNodes = first.newNodes /\ newEdges = first.newEdges)

SimpleGraph_C14 == HasParallelEdges \/ C14_InputHandlesIgnored

\* On a simple graph the second call returned handles other than it was given.
C14_Cases ==
    /\ call = 2 /\ relation = "handles" /\ pc = "done" /\ ~HasParallelEdges
    /\ \E i \in 1..Len(newEdges) :
          /\ edges[i].sourceHandle # first.edges[i].sourceHandle
          /\ newEdges[i].sourceHandle # edges[i].sourceHandle
          /\ newEdges[i].sourceHandle # first.edges[i].sourceHandle

\* C15: whenever autoLayout returns for a non-empty node list, every input
\* edge is returned with a sourceHandle and a targetHandle in 0..3.
C15_HandlesInRange ==
    (pc = "done" /\ Len(nodes) > 0) =>
        /\ Len(newEdges) = Len(edges)
        /\ \A i \in 1..Len(newEdges) :
              /\ newEdges[i].sourceHandle \in 0..3
              /\ newEdges[i].targetHandle \in 0..3

SimpleGraph_C15 == HasParallelEdges \/ C15_HandlesInRange

\* On a simple graph an edge that came without handles was returned.
C15_Cases ==
    /\ pc = "done" /\ Len(nodes) > 0 /\ ~HasParallelEdges
    /\ \E i \in 1..Len(edges) : edges[i].sourceHandle = NoHandle

\* The (id, source, target) triples of an edge list.
EdgeTriples(es) == {<<es[i].id, es[i].source, es[i].target>> : i \in 1..Len(es)}

\* C16: a second call on the output of the first call completes, and returns
\* the node ids and the edges (ids, sources, targets) the first call returned.
C16_RerunKeepsSets ==
    (call = 2 /\ relation = "fedback") =>
        /\ pc # "threw"
        /\ pc = "done" =>
              /\ Range(NodeIds(newNodes)) = Range(NodeIds(first.newNodes))
              /\ EdgeTriples(newEdges) = EdgeTriples(first.newEdges)

SimpleGraph_C16 == HasParallelEdges \/ C16_RerunKeepsSets

\* On a simple graph the second call got the nodes in another order than the
\* first call did, and returned.
C16_Cases ==
    /\ call = 2 /\ relation = "fedback" /\ pc = "done" /\ ~HasParallelEdges
    /\ NodeIds(nodes) # NodeIds(first.nodes)
    /\ Len(edges) > 0

\* Coordinates (half pixels) of a node along and across the flow of a call in
\* the orientation orient.
FlowOf(n, orient) == IF orient = "horizontal" THEN n.position.x ELSE n.position.y
StackOf(n, orient) == IF orient = "horizontal" THEN n.position.y ELSE n.position.x

\* The node with the id in a returned node list.
NodeOf(ns, id) == ns[CHOOSE i \in 1..Len(ns) : ns[i].id = id]

\* C18: a second call on the first input in the other orientation uses the
\* layers and the intra-layer order of the first call: it returns the same
\* nodes, two nodes share a flow coordinate in one output iff they do in the
\* other, are ordered along the flow axis alike, and nodes sharing a flow
\* coordinate are ordered along the stacking axis alike.
C18_Transposed ==
    (call = 2 /\ relation = "transposed" /\ pc = "done") =>
        /\ layers = first.layers
        /\ Range(NodeIds(newNodes)) = Range(NodeIds(first.newNodes))
        /\ \A a, b \in Range(NodeIds(newNodes)) :
              LET a1 == NodeOf(first.newNodes, a)
                  b1 == NodeOf(first.newNodes, b)
                  a2 == NodeOf(newNodes, a)
                  b2 == NodeOf(newNodes, b)
                  o1 == first.orientation
                  o2 == orientation
              IN  /\ (FlowOf(a1, o1) = FlowOf(b1, o1)) <=> (FlowOf(a2, o2) = FlowOf(b2, o2))
                  /\ (FlowOf(a1, o1) < FlowOf(b1, o1)) <=> (FlowOf(a2, o2) < FlowOf(b2, o2))
                  /\ (FlowOf(a1, o1) = FlowOf(b1, o1)) =>
                        ((StackOf(a1, o1) < StackOf(b1, o1))
                            <=> (StackOf(a2, o2) < StackOf(b2, o2)))

SimpleGraph_C18 == HasParallelEdges \/ C18_Transposed

\* On a simple graph both calls laid out several layers, one of several nodes.
C18_Cases ==
    /\ call = 2 /\ relation = "transposed" /\ pc = "done" /\ ~HasParallelEdges
    /\ Len(layers) >= 2
    /\ \E i \in 1..Len(layers) : Len(layers[i]) >= 2

\* C19: when the node list is not empty and no node has in-degree zero after
\* findAndHandleCycles, autoLayout returns every input node, in input order,
\* the i-th (from 0) at (50, 50 + 150 * i), in either orientation.
C19_FallbackStack ==
    (/\ pc = "done" /\ Len(nodes) > 0
     /\ \A id \in DOMAIN inDegree : inDegree[id] # 0) =>
        /\ Len(newNodes) = Len(nodes)
        /\ \A i \in 1..Len(nodes) :
              /\ newNodes[i].id = nodes[i].id
              /\ newNodes[i].position.x = 2 * 50
              /\ newNodes[i].position.y = 2 * (50 + 150 * (i - 1))

C19_Witness ==
    /\ pc = "done" /\ Len(nodes) >= 2 /\ orientation = "horizontal"
    /\ \A id \in DOMAIN inDegree : inDegree[id] # 0
    /\ Len(newNodes) = 2

\* The input edges into v between input nodes whose pair is no back-edge.
ForwardEdgesInto(v) ==
    {i \in 1..Len(edges) :
        IsProper(edges[i]) /\ ~IsBackEdge(edges[i]) /\ edges[i].target = v}

\* The layer (from 0) an id is listed in.
LayerOf(id) == (CHOOSE L \in 1..Len(layers) : id \in Range(layers[L])) - 1

\* C20: after assignLayers every input node is in a layer: in layer 0 iff no
\* forward edge leads into it, and else one layer after the last of the
\* sources of the forward edges into it.
C20_LongestPath ==
    pc = "layered" =>
        /\ \A v \in InputIds : TimesInLayers(v) = 1
        /\ \A v \in InputIds :
              LayerOf(v) = IF ForwardEdgesInto(v) = {} THEN 0
                           ELSE 1 + Max({LayerOf(edges[i].source) : i \in ForwardEdgesInto(v)})

SimpleGraph_C20 == HasParallelEdges \/ C20_LongestPath

\* On a simple graph a node has forward edges from two different layers.
C20_Cases ==
    /\ pc = "layered" /\ ~HasParallelEdges
    /\ \A v \in InputIds : TimesInLayers(v) = 1
    /\ \E v \in InputIds : \E i, j \in ForwardEdgesInto(v) :
          LayerOf(edges[i].source) < LayerOf(edges[j].source)

----------------------------------------------------------------------------
(* Claims on the cycle breaker and the virtual graph *)

\* The two ends of a back-edge key.
BackSource(key) == Split(key, "->")[1]
BackTarget(key) == Split(key, "->")[2]

\* C21: the back-edge set is minimal: for every designated back-edge (u, v)
\* the graph left after findAndHandleCycles leads from v to u (or u = v), so
\* that putting u -> v back closes a directed cycle.
C21_BackEdgesMinimal ==
    pc = "cycles" =>
        \A k \in 1..Len(backEdges) :
            BackSource(backEdges[k]) \in
                ReachableIn(adj, {BackTarget(backEdges[k])}, Cardinality(DOMAIN adj))

\* Two back-edges were designated on a graph without parallel edges, one of
\* them between two different nodes.
C21_Witness ==
    /\ pc = "cycles" /\ ~HasParallelEdges
    /\ Len(backEdges) >= 2
    /\ \E k \in 1..Len(backEdges) : BackSource(backEdges[k]) # BackTarget(backEdges[k])

\* The forward edges createVirtualGraph walks: the entries of the adjacency
\* lists, <<u, k>> for the k-th entry of adj[u].
ForwardEntries ==
    {e \in (DOMAIN adj) \X (1..Len(edges)) : e[2] <= Len(adj[e[1]])}
EntryTarget(e) == adj[e[1]][e[2]]

\* The forward edge e passes over layer L (from 0): its source is listed
\* before L and its target after L, each in one layer.
PassesOver(e, L) ==
    /\ TimesInLayers(e[1]) = 1 /\ TimesInLayers(EntryTarget(e)) = 1
    /\ LayerOf(e[1]) < L /\ L < LayerOf(EntryTarget(e))

\* The places of layer L (from 0) that hold a dummy.
DummyPlaces(L) == {k \in 1..Len(layers[L+1]) : StartsWithDummy(layers[L+1][k])}

\* C22: after createVirtualGraph every layer holds one dummy for each forward
\* edge that passes over it, the dummies of different edges have different
\* ids, and no layer lists the same id twice.
C22_DummiesUnique ==
    pc = "virtual" =>
        /\ \A L \in 0..(Len(layers) - 1) :
              Cardinality(DummyPlaces(L)) =
                  Cardinality({e \in ForwardEntries : PassesOver(e, L)})
        /\ NoRepeats([k \in 1..Len(dummyNodes) |-> dummyNodes[k][1]])
        /\ \A L \in 1..Len(layers) : NoRepeats(layers[L])

SimpleGraph_C22 == HasParallelEdges \/ C22_DummiesUnique

\* On a graph without parallel edges two forward edges pass over one layer.
C22_Cases ==
    /\ pc = "virtual" /\ ~HasParallelEdges
    /\ \E L \in 0..(Len(layers) - 1) : Cardinality(DummyPlaces(L)) >= 2

----------------------------------------------------------------------------
(* Claims on reduceCrossings *)

\* The number of times id is listed in the sequence s.
TimesIn(s, id) == Cardinality({k \in 1..Len(s) : s[k] = id})

SameMultiset(s, t) == \A id \in Range(s) \cup Range(t) : TimesIn(s, id) = TimesIn(t, id)

\* C23: the step of reduceCrossings keeps the number of layers, and every
\* layer lists the same ids as often as before: no id changes its layer, is
\* dropped or is listed once more.
C23_OnlyPermutes ==
    [][pc = "virtual" =>
          /\ Len(layers') = Len(layers)
          /\ \A i \in 1..Len(layers) : SameMultiset(layers'[i], layers[i])]_vars

\* reduceCrossings has moved a dummy before a real node of its layer
\* (createVirtualGraph appends the dummies after the real nodes).
C23_Witness ==
    /\ pc = "ordered"
    /\ \E i \in 1..Len(layers) : \E k \in 1..(Len(layers[i]) - 1) :
          StartsWithDummy(layers[i][k]) /\ ~StartsWithDummy(layers[i][k+1])

\* The directions of the passes the call of reduceCrossings has made.
PassDirs == [k \in 1..Len(reduction.passes) |-> reduction.passes[k].dir]

\* C24: one call of reduceCrossings makes exactly four passes: a downward, an
\* upward, a downward and an upward one.
C24_FourSweeps ==
    pc = "ordered" => PassDirs = <<"down", "up", "down", "up">>

\* The r-th smallest of the numbers of ps (r from 1).
Smallest(ps, r) ==
    CHOOSE v \in Range(ps) :
        /\ Cardinality({k \in 1..Len(ps) : ps[k] < v}) < r
        /\ Cardinality({k \in 1..Len(ps) : ps[k] <= v}) >= r

\* Twice the median of the numbers of ps: the middle one, or the mean of the
\* two middle ones; twice -1 when there is none.
TwiceMedian(ps) ==
    IF Len(ps) = 0 THEN 0 - 2
    ELSE IF Len(ps) % 2 = 1 THEN 2 * Smallest(ps, (Len(ps) + 1) \div 2)
    ELSE Smallest(ps, Len(ps) \div 2) + Smallest(ps, Len(ps) \div 2 + 1)

\* The place (from 0) an id holds in a layer.
PlaceIn(layer, id) == Max({k \in 1..Len(layer) : layer[k] = id}) - 1

\* The ends of the virtual edges into id (predecessors) and out of it.
VirtualNeighbours(id, dir) ==
    IF dir = "down" THEN SourcesTo(virtualEdges, id) ELSE TargetsFrom(virtualEdges, id)

\* Twice the median of the places the neighbours of id hold in the layer nbrLayer.
MedianRank(id, dir, nbrLayer) ==
    LET nbrs == VirtualNeighbours(id, dir)
    IN  TwiceMedian([k \in 1..Len(nbrs) |-> PlaceIn(nbrLayer, nbrs[k])])

\* The layers the k-th pass started from.
BeforePass(k) == IF k = 1 THEN reduction.given ELSE reduction.passes[k-1].layers

\* The k-th pass sorted layer i (from 1) against the layer nbr next to it:
\* the layer is in the order of rank, the ids without a neighbour first and
\* the ids of equal rank in the order they had before the pass (for each two
\* neighbours in the layer, hence for all).
StepSorted(k, i, nbr) ==
    LET dir == reduction.passes[k].dir
        now == reduction.passes[k].layers[i]
        before == BeforePass(k)[i]
        rank == [id \in Range(now) |->
                    MedianRank(id, dir, reduction.passes[k].layers[nbr])]
    IN  \A a \in 1..(Len(now) - 1) :
            /\ rank[now[a]] <= rank[now[a+1]]
            /\ VirtualNeighbours(now[a], dir) # <<>> =>
                  VirtualNeighbours(now[a+1], dir) # <<>>
            /\ (rank[now[a]] = rank[now[a+1]] /\ now[a] # now[a+1]) =>
                  IndexOf(before, now[a]) < IndexOf(before, now[a+1])

\* C25: every step of a downward pass leaves its layer sorted by
\* non-decreasing median of the places the virtual predecessors of each node
\* hold in the layer before it (the mean of the two middle places for an even
\* number), the nodes without a predecessor first and the nodes of equal
\* median in the order they had; the steps of an upward pass do the same with
\* the successors in the layer after.
C25_SortedByMedian ==
    (pc = "ordered" /\ LookupsDefined(reduction.given, virtualEdges)) =>
        \A k \in 1..Len(reduction.passes) :
            IF reduction.passes[k].dir = "down"
            THEN \A i \in 2..Len(layers) : StepSorted(k, i, i - 1)
            ELSE \A i \in 1..(Len(layers) - 1) : StepSorted(k, i, i + 1)

\* The k-th pass has changed the order of layer i.
StepMoved(k, i) == reduction.passes[k].layers[i] # BeforePass(k)[i]

\* The k-th pass has sorted layer i, which holds two nodes of equal median.
StepTied(k, i) ==
    LET dir == reduction.passes[k].dir
        now == reduction.passes[k].layers
        nbr == IF dir = "down" THEN i - 1 ELSE i + 1
    IN  /\ nbr \in 1..Len(now)
        /\ \E b, c \in Range(now[i]) :
              b # c /\ MedianRank(b, dir, now[nbr]) = MedianRank(c, dir, now[nbr])

\* A downward pass has changed the order of a layer that holds a node with two
\* predecessors, an upward pass that of a layer that holds a node without a
\* successor, and a pass has sorted a layer with two nodes of equal median.
C25_Witness ==
    /\ pc = "ordered" /\ LookupsDefined(reduction.given, virtualEdges)
    /\ \E k \in 1..Len(reduction.passes) : \E i \in 2..Len(layers) :
          /\ reduction.passes[k].dir = "down" /\ StepMoved(k, i)
          /\ \E b \in Range(layers[i]) : Len(VirtualNeighbours(b, "down")) = 2
    /\ \E k \in 1..Len(reduction.passes) : \E i \in 1..(Len(layers) - 1) :
          /\ reduction.passes[k].dir = "up" /\ StepMoved(k, i)
          /\ \E a \in Range(layers[i]) : VirtualNeighbours(a, "up") = <<>>
    /\ \E k \in 1..Len(reduction.passes) : \E i \in 1..Len(layers) : StepTied(k, i)

\* The virtual edges between layer i and layer i+1 of ls, as pairs of places;
\* an edge listed twice counts twice.
EdgesBetween(ls, i) ==
    {k \in 1..Len(virtualEdges) :
        virtualEdges[k].source \in Range(ls[i]) /\ virtualEdges[k].target \in Range(ls[i+1])}

\* The pairs of virtual edges between layer i and layer i+1 that cross in the
\* order ls: their ends are in opposite order in the two layers.
CrossingPairs(ls, i) ==
    {p \in EdgesBetween(ls, i) \X EdgesBetween(ls, i) :
        /\ PlaceIn(ls[i], virtualEdges[p[1]].source) < PlaceIn(ls[i], virtualEdges[p[2]].source)
        /\ PlaceIn(ls[i+1], virtualEdges[p[1]].target) > PlaceIn(ls[i+1], virtualEdges[p[2]].target)}

Crossings(ls) == SumSeq([i \in 1..(Len(ls) - 1) |-> Cardinality(CrossingPairs(ls, i))])

\* C29 as claimed: the order reduceCrossings returns has no more crossings
\* between the virtual edges of adjacent layers than the order it was given.
C29_NeverWorse_Original ==
    pc = "ordered" => Crossings(layers) <= Crossings(reduction.given)

\* Every node of layer i (from 1) has its successors, if any, in layer i+1.
SuccessorsNextTo(i) ==
    \A id \in Range(layers[i]) :
        Range(VirtualNeighbours(id, "up")) \subseteq Range(layers[i+1])

\* The node has one virtual successor.
OneSuccessor(id) == Len(VirtualNeighbours(id, "up")) = 1

\* C29: reduceCrossings may return more crossings than it was given; in the
\* order it returns, in every layer whose nodes have their successors in
\* the next layer, two nodes with one successor each are in the order of
\* their successors: their two outgoing virtual edges do not cross.
C29_SingleEdgesUncrossed ==
    pc = "ordered" =>
        \A i \in 1..(Len(layers) - 1) : SuccessorsNextTo(i) =>
            \A a, b \in 1..Len(layers[i]) :
                (a < b /\ OneSuccessor(layers[i][a]) /\ OneSuccessor(layers[i][b])) =>
                    PlaceIn(layers[i+1], VirtualNeighbours(layers[i][a], "up")[1])
                        <= PlaceIn(layers[i+1], VirtualNeighbours(layers[i][b], "up")[1])

\* reduceCrossings has returned more crossings than it was given, in layers
\* one of which holds two nodes with one successor each.
C29_Witness ==
    /\ pc = "ordered"
    /\ Crossings(layers) > Crossings(reduction.given)
    /\ \E i \in 1..(Len(layers) - 1) :
          /\ SuccessorsNextTo(i)
          /\ \E a, b \in Range(layers[i]) :
                a # b /\ OneSuccessor(a) /\ OneSuccessor(b)

----------------------------------------------------------------------------
(* Claims on the coordinates *)

\* The size (pixels) of a placed node along the stacking axis: its height in
\* horizontal orientation, its width in vertical orientation.
SizeAcross(n) == IF orientation = "horizontal" THEN n.height ELSE n.width
SizeAlong(n) == IF orientation = "horizontal" THEN n.width ELSE n.height

\* The extent (pixels) of layer i: the sizes of its nodes, dummies included,
\* and a gap of 120 (horizontal) or 200 (vertical) between neighbours.
ExtentOf(i) ==
    SumSeq([k \in 1..Len(layers[i]) |-> SizeAcross(PlacedAt(i, k))])
        + (Len(layers[i]) - 1) * (IF orientation = "horizontal" THEN 120 ELSE 200)

LongestExtent == Max({ExtentOf(i) : i \in 1..Len(layers)})

\* C26: every layer is centred against the longest one.  In half pixels: the
\* first node of a layer of extent H starts at 2 * 50 + (Hmax - H), the last
\* one ends 2 * H further on, so that the middle of every layer is at
\* 2 * 50 + Hmax, and no node starts before 2 * 50.
C26_Centred ==
    pc = "positioned" =>
        \A i \in 1..Len(layers) :
            /\ StackCoord(PlacedAt(i, 1)) = 2 * 50 + (LongestExtent - ExtentOf(i))
            /\ StackCoord(PlacedAt(i, Len(layers[i])))
                  + 2 * SizeAcross(PlacedAt(i, Len(layers[i])))
                  = StackCoord(PlacedAt(i, 1)) + 2 * ExtentOf(i)
            /\ \A k \in 1..Len(layers[i]) : StackCoord(PlacedAt(i, k)) >= 2 * 50

\* Three layers of three different extents are placed, one of them with a dummy.
C26_Witness ==
    /\ pc = "positioned"
    /\ \E i, j, l \in 1..Len(layers) :
          /\ ExtentOf(i) < ExtentOf(j) /\ ExtentOf(j) < ExtentOf(l)
          /\ \E k \in 1..Len(layers[i]) : StartsWithDummy(layers[i][k])

----------------------------------------------------------------------------
(* Claims on the whole layout *)

\* No input edge is dangling and no two input edges have the same pair.
SimpleInput == ~HasParallelEdges /\ \A i \in 1..Len(edges) : IsProper(edges[i])

\* C27: on an input without dangling and without parallel edges, cyclic or
\* not, assignLayers returns at least one layer (the fallback stack is not
\* taken) and lists every input node in a layer.
C27_SimpleInputsLayered ==
    (pc = "layered" /\ SimpleInput) =>
        /\ Len(layers) > 0
        /\ \A id \in InputIds : TimesInLayers(id) >= 1

\* Such an input with a self-loop and a cycle through two nodes is layered.
C27_Witness ==
    /\ pc = "layered" /\ SimpleInput
    /\ \E i \in 1..Len(edges) : IsSelfLoop(edges[i])
    /\ \E k \in 1..Len(backEdges) : BackSource(backEdges[k]) # BackTarget(backEdges[k])
    /\ Len(layers) >= 2

\* The bounding boxes of two nodes (positions in half pixels, sizes in
\* pixels) share a point inside both.
BoxesOverlap(m, n) ==
    /\ m.position.x < n.position.x + 2 * n.width
    /\ n.position.x < m.position.x + 2 * m.width
    /\ m.position.y < n.position.y + 2 * n.height
    /\ n.position.y < m.position.y + 2 * m.height

\* C28: when autoLayout returns a layout made of at least one layer, the
\* returned nodes have positive sizes and no two of them have overlapping
\* bounding boxes, in one layer or in different layers.
C28_NoOverlap ==
    (pc = "done" /\ Len(layers) > 0) =>
        /\ \A i \in 1..Len(newNodes) : newNodes[i].width > 0 /\ newNodes[i].height > 0
        /\ \A i, j \in 1..Len(newNodes) :
              i # j => ~BoxesOverlap(newNodes[i], newNodes[j])

\* A layout of three layers is returned, two of its nodes in one layer.
C28_Witness ==
    /\ pc = "done" /\ Len(layers) >= 3
    /\ \E i, j \in 1..Len(newNodes) :
          i # j /\ FlowCoord(newNodes[i]) = FlowCoord(newNodes[j])

\* The id is the only entry of a layer.
SoleOfLayer(id) == \E L \in 1..Len(layers) : layers[L] = <<id>>

\* The handles along the flow: (right, left) or (bottom, top).
DefaultHandles == IF orientation = "horizontal" THEN <<1, 3>> ELSE <<2, 0>>

\* C30: a forward edge between two nodes that are each the only node of
\* their layer is returned with the default handles along the flow, whatever
\* the sizes of the two nodes.
C30_AlignedDefault ==
    (pc = "done" /\ Len(layers) > 0) =>
        \A i \in 1..Len(edges) :
            (/\ IsProper(edges[i]) /\ ~IsBackEdge(edges[i])
             /\ SoleOfLayer(edges[i].source) /\ SoleOfLayer(edges[i].target)) =>
                <<newEdges[i].sourceHandle, newEdges[i].targetHandle>> = DefaultHandles

\* The two ends of every input edge have the same size across the flow.
EqualSizedEnds ==
    \A i \in 1..Len(edges) : IsProper(edges[i]) =>
        SizeAcross(NodeMapOf(nodes)[edges[i].source])
            = SizeAcross(NodeMapOf(nodes)[edges[i].target])

EqualSizes_C30 == ~EqualSizedEnds \/ C30_AlignedDefault

\* A forward edge between the only nodes of two layers, of equal size, is returned.
C30_Cases ==
    /\ pc = "done" /\ Len(layers) > 0 /\ EqualSizedEnds
    /\ \E i \in 1..Len(edges) :
          /\ IsProper(edges[i]) /\ ~IsBackEdge(edges[i])
          /\ SoleOfLayer(edges[i].source) /\ SoleOfLayer(edges[i].target)

====
